---- MODULE Spec2Model ----
(***************************************************************************)
(* ConvertToPDFSrv: the deferred/immediate conversion workflow (main.py),  *)
(* the conversion invoker (converter.py) and the retention sweeper         *)
(* (cleanup.py), as one state machine.                                     *)
(*                                                                         *)
(* Scheduling model.  All coroutines run on one asyncio event loop, so a   *)
(* stretch of code between two awaits is one atomic action.  convert_sync  *)
(* calls the blocking subprocess.run from a coroutine: while it waits, the *)
(* loop runs nothing else (sync_call.pc = "blocked"), but the environment  *)
(* (the clock, the external processes) goes on.                            *)
(*                                                                         *)
(* Time is a discrete clock `now`; every duration of config.py is given in *)
(* clock ticks.  Timers never fire early and may fire late.                *)
(*                                                                         *)
(* `outcome` is the label of the step that led to a state: the response, *)
(* exception or log record of the call that just ran, Quiet after a step   *)
(* of the environment.                                                     *)
(***************************************************************************)
EXTENDS Integers, Sequences, FiniteSets, TLC

VARIABLES
    now,            \* the wall clock, in ticks
    ENABLE_CLEANUP, \* config.ENABLE_CLEANUP, fixed at start-up
    CONVERSION_TIMEOUT, \* config.CONVERSION_TIMEOUT in ticks, fixed at start-up
    uuid_count,     \* number of uuid.uuid4() values drawn so far
    upload_dir,     \* UPLOAD_DIR: generated name -> last-modified time
    output_dir,     \* OUTPUT_DIR: generated name -> last-modified time
    procs,          \* external converter processes: token -> record
    async_tasks,    \* main.async_tasks: task id -> job record
    background,     \* scheduled process_async_conversion calls: task id -> record
    sync_call,      \* the convert_sync call that blocks the loop, if any
    is_running,     \* FileCleanup.is_running
    cleanup_task,   \* FileCleanup.cleanup_task: a loop task id or None
    loop_tasks,     \* asyncio tasks running _cleanup_loop: id -> record
    outcome         \* what the step that led here returned, raised or logged

vars == <<now, ENABLE_CLEANUP, CONVERSION_TIMEOUT, uuid_count, upload_dir, output_dir, procs,
          async_tasks, background, sync_call, is_running, cleanup_task,
          loop_tasks, outcome>>

conv_vars == <<uuid_count, upload_dir, output_dir, procs, async_tasks,
               background, sync_call>>
sweeper_vars == <<is_running, cleanup_task, loop_tasks>>

-----------------------------------------------------------------------------
(* Bounds of the model *)

MaxSubmissions == 2     \* accepted submissions (sync + async)
MaxTime == 2            \* the clock stops here
MaxStarts == 2          \* loop tasks ever created
MaxFaults == 1          \* entries whose stat or unlink fails in one sweep

(* Configuration (config.py), durations in clock ticks *)

CLEANUP_INTERVAL_MINUTES == 2
FILE_EXPIRE_HOURS == 1
RECOVERY_DELAY == 1     \* the fixed asyncio.sleep(60) after a failed iteration

(* Python's None, one per type of value it stands in for *)
None == "None"          \* a missing message or status
NoName == <<>>          \* a missing file name
NoId == 0               \* a missing task id or asyncio task
NoTime == -1            \* a missing time
NoCode == -1            \* returncode of a process that has not exited

(* Uploaded file names, as Path() sees them: stem and suffix *)
FileNames == { [stem |-> "report", suffix |-> ".DOCX"],
               [stem |-> "notes",  suffix |-> ".txt"] }

\* str.lower() on the suffixes above
lower(s) == IF s = ".DOCX" THEN ".docx" ELSE s

allowed_extensions == {".doc", ".docx", ".xls", ".xlsx", ".ppt", ".pptx",
                       ".odt", ".ods", ".odp"}

ContentLengths == {0, 1}

SupportedNames == {f \in FileNames : lower(f.suffix) \in allowed_extensions}

-----------------------------------------------------------------------------
(* Small helpers on finite maps *)

Put(f, k, v) == [x \in DOMAIN f \cup {k} |-> IF x = k THEN v ELSE f[x]]
\* (mutant) the file is put on the list of deleted files and not unlinked
Drop_not_unlinked(f, S) == f

Drop(f, S) == [x \in DOMAIN f \ S |-> f[x]]
EmptyMap == [x \in {} |-> 0]

-----------------------------------------------------------------------------
(* converter.py *)

uuid4 == uuid_count + 1

\* (mutant) the unique id is left out of the generated name
_generate_unique_filename_no_id(original_filename, extension, unique_id) ==
    <<original_filename.stem, NoId, extension>>

\* f"{name_without_ext}_{unique_id}{extension}"
_generate_unique_filename(original_filename, extension, unique_id) ==
    <<original_filename.stem, unique_id, extension>>

\* Path(unique_input_name).stem + ".pdf"
expected_pdf_name(unique_input_name) ==
    <<unique_input_name[1], unique_input_name[2], ".pdf">>

Result(success, message, output_filename) ==
    [success |-> success, message |-> message, output_filename |-> output_filename]

\* with open(input_file, 'wb') as f: f.write(file_content)
\* stage: "ok", "open_error" (nothing created) or "write_error" (file left behind)
StageFile(dir, name, stage) ==
    IF stage = "open_error" THEN dir ELSE Put(dir, name, now)

StageOutcomes == {"ok", "open_error", "write_error"}
SpawnOutcomes == {"ok", "not_found"}

\* the tail of both converters once the process has exited by itself
OutputCheck(returncode, unique_input_name, outdir, failure_message) ==
    IF returncode = 0
    THEN IF expected_pdf_name(unique_input_name) \in DOMAIN outdir
         THEN Result(TRUE, "Conversion completed successfully",
                     expected_pdf_name(unique_input_name))
         ELSE Result(FALSE, "PDF file not found after conversion", NoName)
    ELSE Result(FALSE, failure_message, NoName)

\* (mutant) the failure message is the bare stderr of the process, which is
\* empty here, and an error of decoding goes unnoticed
_run_soffice_command_bare_stderr(returncode, decodable) ==
    IF returncode = 0
    THEN [success |-> TRUE, message |-> "Conversion successful"]
    ELSE [success |-> FALSE, message |-> ""]

\* _run_soffice_command after the external process exited within the timeout.
\* subprocess.run(text=True) decodes what the process wrote to stdout and
\* stderr, strictly, whatever the return code: bytes that are not text
\* (decodable = FALSE) raise UnicodeDecodeError out of subprocess.run, which
\* `except Exception` turns into a failure
_run_soffice_command(returncode, decodable) ==
    IF ~decodable
    THEN [success |-> FALSE,
          message |-> "Unexpected error during conversion: UnicodeDecodeError"]
    ELSE IF returncode = 0
    THEN [success |-> TRUE, message |-> "Conversion successful"]
    ELSE [success |-> FALSE, message |-> "Conversion failed: stderr"]

\* convert_to_pdf after _run_soffice_command returned
convert_to_pdf_tail(run, unique_input_name, outdir) ==
    IF run.success
    THEN OutputCheck(0, unique_input_name, outdir, run.message)
    ELSE Result(FALSE, run.message, NoName)

\* (mutant) a zero return code is taken for success without looking for the file
convert_to_pdf_async_tail_no_exists(returncode, decodable, unique_input_name, outdir) ==
    IF returncode # 0 /\ ~decodable
    THEN Result(FALSE, "Error during async conversion: UnicodeDecodeError", NoName)
    ELSE IF returncode = 0
    THEN Result(TRUE, "Conversion completed successfully",
                expected_pdf_name(unique_input_name))
    ELSE Result(FALSE, "Async conversion failed: stderr", NoName)

\* convert_to_pdf_async after communicate() returned: the bytes of stderr are
\* decoded on a non-zero return code only, and a UnicodeDecodeError there is
\* caught by the `except Exception` of the function
convert_to_pdf_async_tail(returncode, decodable, unique_input_name, outdir) ==
    IF returncode # 0 /\ ~decodable
    THEN Result(FALSE, "Error during async conversion: UnicodeDecodeError", NoName)
    ELSE OutputCheck(returncode, unique_input_name, outdir,
                     "Async conversion failed: stderr")

TimeoutResult == Result(FALSE, "Conversion timeout after CONVERSION_TIMEOUT seconds", NoName)

\* the external binary leaves <stem>.pdf in the output directory, or not
WriteOutput(outdir, unique_input_name, out) ==
    IF out THEN Put(outdir, expected_pdf_name(unique_input_name), now) ELSE outdir

-----------------------------------------------------------------------------
(* main.py: the job registry *)

Job(status, message, filename, created_at) ==
    [status |-> status, message |-> message, filename |-> filename,
     created_at |-> created_at]

\* (mutant) a failed conversion is logged and the registry is left alone
process_async_conversion_drops_failure(tasks, task_id, result) ==
    IF ~result.raised /\ result.success
    THEN Put(tasks, task_id,
             Job("completed", result.message, result.output_filename,
                 tasks[task_id].created_at))
    ELSE tasks

\* (mutant) the terminal record is written without the creation time
process_async_conversion_loses_created_at(tasks, task_id, result) ==
    IF result.raised
    THEN Put(tasks, task_id, Job("failed", "Conversion failed: exception", NoName, NoTime))
    ELSE IF result.success
    THEN Put(tasks, task_id,
             Job("completed", result.message, result.output_filename, NoTime))
    ELSE Put(tasks, task_id, Job("failed", result.message, NoName, NoTime))

\* process_async_conversion once convert_to_pdf_async has returned `result`
\* (result.raised: an exception escaped the converter call)
process_async_conversion(tasks, task_id, result) ==
    IF result.raised
    THEN Put(tasks, task_id,
             Job("failed", "Conversion failed: exception", NoName, tasks[task_id].created_at))
    ELSE IF result.success
    THEN Put(tasks, task_id,
             Job("completed", result.message, result.output_filename,
                 tasks[task_id].created_at))
    ELSE Put(tasks, task_id,
             Job("failed", result.message, NoName, tasks[task_id].created_at))

Returned(result) ==
    [raised |-> FALSE, success |-> result.success, message |-> result.message,
     output_filename |-> result.output_filename]

Response(op, code, detail, task_id, filename, status) ==
    [op |-> op, code |-> code, detail |-> detail, task_id |-> task_id,
     filename |-> filename, status |-> status]

\* the event loop is free to run a coroutine step
LoopFree == sync_call.pc = "idle"

\* submissions accepted so far: every uuid drawn is a task id, the file token of
\* a background conversion, or the file token of an immediate conversion
Accepted ==
    uuid_count - Cardinality({t \in DOMAIN background : background[t].token # NoId})

Idle == [pc |-> "idle", name |-> NoName, deadline |-> NoTime]

Proc(state, returncode) == [state |-> state, returncode |-> returncode]

\* (mutant) the timed-out process is neither killed nor waited for
KillAndReap_leaks(ps, token) == ps

\* process.kill() followed by process.wait(); subprocess.run does both on timeout
KillAndReap(ps, token) == Put(ps, token, Proc("reaped", -9))

\* the wait on an exited process returns its status
Reap(ps, token) == Put(ps, token, Proc("reaped", ps[token].returncode))

NoResponse == Response("none", 0, None, NoId, NoName, None)

\* the label of a step that returns and logs nothing
Quiet == [op |-> "none"]

\* (mutant) the length of the content is not looked at
Rejection_no_empty_check(op, file, len) ==
    IF lower(file.suffix) \notin allowed_extensions
    THEN Response(op, 400, "Unsupported file type", NoId, NoName, None)
    ELSE NoResponse

\* raise HTTPException(status_code=400, ...) of both handlers, before any effect
Rejection(op, file, len) ==
    IF lower(file.suffix) \notin allowed_extensions
    THEN Response(op, 400, "Unsupported file type", NoId, NoName, None)
    ELSE IF len = 0
    THEN Response(op, 400, "Empty file", NoId, NoName, None)
    ELSE NoResponse

\* the HTTP response convert_sync builds from the converter's result
SyncResponse(result) ==
    IF result.success
    THEN Response("convert_sync", 200, result.message, NoId, result.output_filename, None)
    ELSE Response("convert_sync", 500, result.message, NoId, NoName, None)

\* POST /convert/sync up to the point where subprocess.run waits
convert_sync(file, len, stage, spawn) ==
    /\ LoopFree
    /\ IF Rejection("convert_sync", file, len) # NoResponse
       THEN /\ stage = "ok" /\ spawn = "ok"
            /\ outcome' = Rejection("convert_sync", file, len)
            /\ UNCHANGED conv_vars
       ELSE /\ Accepted < MaxSubmissions
            /\ LET unique_input_name ==
                       _generate_unique_filename(file, file.suffix, uuid4)
               IN  /\ uuid_count' = uuid_count + 1
                   /\ upload_dir' = StageFile(upload_dir, unique_input_name, stage)
                   /\ IF stage # "ok"
                      THEN /\ spawn = "ok"
                           /\ outcome' = SyncResponse(
                                  Result(FALSE, "Error during conversion: OSError", NoName))
                           /\ UNCHANGED <<procs, sync_call>>
                      ELSE IF spawn = "not_found"
                      THEN /\ outcome' = SyncResponse(
                                  Result(FALSE, "LibreOffice not found at SOFFICE_PATH", NoName))
                           /\ UNCHANGED <<procs, sync_call>>
                      ELSE /\ procs' = Put(procs, uuid4, Proc("running", NoCode))
                           /\ sync_call' = [pc |-> "blocked", name |-> unique_input_name,
                                            deadline |-> now + CONVERSION_TIMEOUT]
                           /\ outcome' = Response("convert_sync", 0, "Running command",
                                                  NoId, NoName, None)
            /\ UNCHANGED <<output_dir, async_tasks, background>>
    /\ UNCHANGED <<now, ENABLE_CLEANUP, CONVERSION_TIMEOUT>>
    /\ UNCHANGED sweeper_vars

\* the external process of the immediate path exits within the timeout;
\* subprocess.run returns and convert_to_pdf, convert_sync run to their end
convert_sync_return(returncode, out, decodable) ==
    /\ sync_call.pc = "blocked"
    /\ now < sync_call.deadline
    /\ output_dir' = WriteOutput(output_dir, sync_call.name, out)
    /\ procs' = Put(procs, sync_call.name[2], Proc("reaped", returncode))
    /\ outcome' = SyncResponse(convert_to_pdf_tail(_run_soffice_command(returncode, decodable),
                                                   sync_call.name, output_dir'))
    /\ sync_call' = Idle
    /\ UNCHANGED <<now, ENABLE_CLEANUP, CONVERSION_TIMEOUT>>
    /\ UNCHANGED <<uuid_count, upload_dir, async_tasks, background>>
    /\ UNCHANGED sweeper_vars

\* (mutant) the timeout of an immediate conversion is put on record as a job
convert_sync_timeout_recorded ==
    /\ sync_call.pc = "blocked"
    /\ now >= sync_call.deadline
    /\ procs' = KillAndReap(procs, sync_call.name[2])
    /\ outcome' = SyncResponse(convert_to_pdf_tail(
                      [success |-> FALSE, message |-> TimeoutResult.message],
                      sync_call.name, output_dir))
    /\ sync_call' = Idle
    /\ async_tasks' = Put(async_tasks, sync_call.name[2],
                          Job("failed", TimeoutResult.message, NoName, now))
    /\ UNCHANGED <<now, ENABLE_CLEANUP, CONVERSION_TIMEOUT>>
    /\ UNCHANGED <<uuid_count, upload_dir, output_dir, background>>
    /\ UNCHANGED sweeper_vars

\* subprocess.TimeoutExpired: subprocess.run kills and reaps the child, then
\* _run_soffice_command returns the timeout failure
convert_sync_timeout ==
    /\ sync_call.pc = "blocked"
    /\ now >= sync_call.deadline
    /\ procs' = KillAndReap(procs, sync_call.name[2])
    /\ outcome' = SyncResponse(convert_to_pdf_tail(
                      [success |-> FALSE, message |-> TimeoutResult.message],
                      sync_call.name, output_dir))
    /\ sync_call' = Idle
    /\ UNCHANGED <<now, ENABLE_CLEANUP, CONVERSION_TIMEOUT>>
    /\ UNCHANGED <<uuid_count, upload_dir, output_dir, async_tasks, background>>
    /\ UNCHANGED sweeper_vars

Scheduled(filename) ==
    [pc |-> "scheduled", filename |-> filename, token |-> NoId, name |-> NoName,
     deadline |-> NoTime]

\* POST /convert/async: the whole handler
convert_async(file, len) ==
    /\ LoopFree
    /\ IF Rejection("convert_async", file, len) # NoResponse
       THEN /\ outcome' = Rejection("convert_async", file, len)
            /\ UNCHANGED conv_vars
       ELSE /\ Accepted < MaxSubmissions
            /\ LET task_id == uuid4
               IN  /\ uuid_count' = uuid_count + 1
                   /\ async_tasks' = Put(async_tasks, task_id,
                          Job("processing", "Conversion in progress", NoName, now))
                   /\ background' = Put(background, task_id, Scheduled(file))
                   /\ outcome' = Response("convert_async", 200, "Conversion task started",
                                          task_id, NoName, None)
            /\ UNCHANGED <<upload_dir, output_dir, procs, sync_call>>
    /\ UNCHANGED <<now, ENABLE_CLEANUP, CONVERSION_TIMEOUT>>
    /\ UNCHANGED sweeper_vars

\* the background task starts: process_async_conversion enters
\* convert_to_pdf_async and runs up to the await on communicate(); a failure to
\* stage or to launch is caught there and ends the task at once
background_start(task_id, stage, spawn) ==
    /\ LoopFree
    /\ task_id \in DOMAIN background
    /\ background[task_id].pc = "scheduled"
    /\ LET file == background[task_id].filename
           unique_input_name == _generate_unique_filename(file, file.suffix, uuid4)
           failed == Result(FALSE, "Error during async conversion: OSError", NoName)
       IN  /\ uuid_count' = uuid_count + 1
           /\ upload_dir' = StageFile(upload_dir, unique_input_name, stage)
           /\ IF stage # "ok" \/ spawn = "not_found"
              THEN /\ stage # "ok" => spawn = "ok"
                   /\ async_tasks' =
                          process_async_conversion(async_tasks, task_id, Returned(failed))
                   /\ background' = Put(background, task_id,
                          [background[task_id] EXCEPT !.pc = "done", !.token = uuid4,
                                                      !.name = unique_input_name])
                   /\ UNCHANGED procs
              ELSE /\ procs' = Put(procs, uuid4, Proc("running", NoCode))
                   /\ background' = Put(background, task_id,
                          [background[task_id] EXCEPT !.pc = "waiting", !.token = uuid4,
                               !.name = unique_input_name,
                               !.deadline = now + CONVERSION_TIMEOUT])
                   /\ UNCHANGED async_tasks
    /\ outcome' = [op |-> "process_async_conversion", task_id |-> task_id,
                   detail |-> "started"]
    /\ UNCHANGED <<now, ENABLE_CLEANUP, CONVERSION_TIMEOUT>>
    /\ UNCHANGED <<output_dir, sync_call>>
    /\ UNCHANGED sweeper_vars

\* the external process of a deferred conversion exits within the timeout
process_exit(task_id, returncode, out) ==
    /\ task_id \in DOMAIN background
    /\ background[task_id].pc = "waiting"
    /\ procs[background[task_id].token].state = "running"
    /\ now < background[task_id].deadline
    /\ procs' = Put(procs, background[task_id].token, Proc("exited", returncode))
    /\ output_dir' = WriteOutput(output_dir, background[task_id].name, out)
    /\ outcome' = Quiet
    /\ UNCHANGED <<now, ENABLE_CLEANUP, CONVERSION_TIMEOUT>>
    /\ UNCHANGED <<uuid_count, upload_dir, async_tasks, background, sync_call>>
    /\ UNCHANGED sweeper_vars

\* (mutant) the staged input is unlinked once the conversion is over
background_finish_unlinks_input(task_id) ==
    /\ LoopFree
    /\ task_id \in DOMAIN background
    /\ background[task_id].pc = "waiting"
    /\ procs[background[task_id].token].state = "exited"
    /\ procs' = Reap(procs, background[task_id].token)
    /\ \E decodable \in BOOLEAN :
          async_tasks' = process_async_conversion(async_tasks, task_id,
              Returned(convert_to_pdf_async_tail(
                           procs[background[task_id].token].returncode, decodable,
                           background[task_id].name, output_dir)))
    /\ background' = Put(background, task_id,
                       [background[task_id] EXCEPT !.pc = "done", !.deadline = NoTime])
    /\ upload_dir' = Drop(upload_dir, {background[task_id].name})
    /\ outcome' = [op |-> "process_async_conversion", task_id |-> task_id,
                   detail |-> "finished"]
    /\ UNCHANGED <<now, ENABLE_CLEANUP, CONVERSION_TIMEOUT>>
    /\ UNCHANGED <<uuid_count, output_dir, sync_call>>
    /\ UNCHANGED sweeper_vars

\* communicate() returned: the rest of convert_to_pdf_async and of
\* process_async_conversion, with no await in between
background_finish(task_id) ==
    /\ LoopFree
    /\ task_id \in DOMAIN background
    /\ background[task_id].pc = "waiting"
    /\ procs[background[task_id].token].state = "exited"
    /\ procs' = Reap(procs, background[task_id].token)
    /\ \E decodable \in BOOLEAN :
          async_tasks' = process_async_conversion(async_tasks, task_id,
              Returned(convert_to_pdf_async_tail(
                           procs[background[task_id].token].returncode, decodable,
                           background[task_id].name, output_dir)))
    /\ background' = Put(background, task_id,
                       [background[task_id] EXCEPT !.pc = "done", !.deadline = NoTime])
    /\ outcome' = [op |-> "process_async_conversion", task_id |-> task_id,
                   detail |-> "finished"]
    /\ UNCHANGED <<now, ENABLE_CLEANUP, CONVERSION_TIMEOUT>>
    /\ UNCHANGED <<uuid_count, upload_dir, output_dir, sync_call>>
    /\ UNCHANGED sweeper_vars

\* (mutant) the timeout kills the process and returns without a registry update
background_timeout_silent(task_id) ==
    /\ LoopFree
    /\ task_id \in DOMAIN background
    /\ background[task_id].pc = "waiting"
    /\ procs[background[task_id].token].state = "running"
    /\ now >= background[task_id].deadline
    /\ procs' = KillAndReap(procs, background[task_id].token)
    /\ background' = Put(background, task_id,
                       [background[task_id] EXCEPT !.pc = "done", !.deadline = NoTime])
    /\ outcome' = [op |-> "process_async_conversion", task_id |-> task_id,
                   detail |-> "timeout"]
    /\ UNCHANGED <<now, ENABLE_CLEANUP, CONVERSION_TIMEOUT>>
    /\ UNCHANGED <<uuid_count, upload_dir, output_dir, sync_call, async_tasks>>
    /\ UNCHANGED sweeper_vars

\* (mutant) the timer of wait_for is not disarmed when communicate() returns:
\* it fires on a job that is already over
background_timeout_uncancelled(task_id) ==
    /\ LoopFree
    /\ task_id \in DOMAIN background
    /\ background[task_id].pc \in {"waiting", "done"}
    /\ background[task_id].token \in DOMAIN procs
    /\ now >= background[task_id].deadline
    /\ procs' = KillAndReap(procs, background[task_id].token)
    /\ async_tasks' = process_async_conversion(async_tasks, task_id, Returned(TimeoutResult))
    /\ background' = Put(background, task_id,
                       [background[task_id] EXCEPT !.pc = "done", !.deadline = NoTime])
    /\ outcome' = [op |-> "process_async_conversion", task_id |-> task_id,
                   detail |-> "timeout"]
    /\ UNCHANGED <<now, ENABLE_CLEANUP, CONVERSION_TIMEOUT>>
    /\ UNCHANGED <<uuid_count, upload_dir, output_dir, sync_call>>
    /\ UNCHANGED sweeper_vars

\* asyncio.TimeoutError: process.kill(), await process.wait(), timeout failure
background_timeout(task_id) ==
    /\ LoopFree
    /\ task_id \in DOMAIN background
    /\ background[task_id].pc = "waiting"
    /\ procs[background[task_id].token].state = "running"
    /\ now >= background[task_id].deadline
    /\ procs' = KillAndReap(procs, background[task_id].token)
    /\ async_tasks' = process_async_conversion(async_tasks, task_id, Returned(TimeoutResult))
    /\ background' = Put(background, task_id,
                       [background[task_id] EXCEPT !.pc = "done", !.deadline = NoTime])
    /\ outcome' = [op |-> "process_async_conversion", task_id |-> task_id,
                   detail |-> "timeout"]
    /\ UNCHANGED <<now, ENABLE_CLEANUP, CONVERSION_TIMEOUT>>
    /\ UNCHANGED <<uuid_count, upload_dir, output_dir, sync_call>>
    /\ UNCHANGED sweeper_vars

\* GET /task/{task_id}
get_task_status(task_id) ==
    /\ LoopFree
    /\ IF task_id \notin DOMAIN async_tasks
       THEN outcome' = Response("get_task_status", 404, "Task not found", task_id, NoName, None)
       ELSE LET task == async_tasks[task_id]
            IN  outcome' = Response("get_task_status", 200, task.message, task_id,
                                    task.filename, task.status)
    /\ UNCHANGED <<now, ENABLE_CLEANUP, CONVERSION_TIMEOUT>>
    /\ UNCHANGED conv_vars
    /\ UNCHANGED sweeper_vars

-----------------------------------------------------------------------------
(* cleanup.py *)

Areas == {"upload", "output"}

\* (mutant) the expiry is added to the clock instead of subtracted
_is_file_expired_sign(file_mtime, stat_fails) ==
    IF stat_fails THEN FALSE ELSE file_mtime < now + FILE_EXPIRE_HOURS

\* file_mtime < datetime.now() - timedelta(hours=FILE_EXPIRE_HOURS);
\* False when stat() raises
_is_file_expired(file_mtime, stat_fails) ==
    IF stat_fails THEN FALSE ELSE file_mtime < now - FILE_EXPIRE_HOURS

\* Faults the operating system may inject into one sweep:
\*   <<"stat", area, name>>    stat() of the entry raises
\*   <<"unlink", area, name>>  unlink() of the entry raises
\*   <<"is_file", area, name, before>>
\*                             is_file() of the entry raises (pathlib lets an
\*                             OSError other than ENOENT, ENOTDIR, EBADF, ELOOP
\*                             through) once iterdir() has yielded the expired
\*                             entries `before`, in whatever order it yields
\*   <<"scan", area>>          iterdir() of the directory raises
\*   <<"exists", area>>        directory.exists() raises (outside any try)
\* Entry and scan faults are drawn where an expired entry is at stake: anywhere
\* else they leave the sweep's result as it is.
ExpiredNow(directory) ==
    {f \in DOMAIN directory : directory[f] < now - FILE_EXPIRE_HOURS}

Directory(area) == IF area = "upload" THEN upload_dir ELSE output_dir

\* the is_file() faults of one directory that keep an expired entry from
\* being reached
IsFileFaults(area, directory) ==
    UNION {{<<"is_file", area, f, before>> :
               before \in {b \in SUBSET (ExpiredNow(directory) \ {f}) :
                              f \in ExpiredNow(directory)
                              \/ b # ExpiredNow(directory) \ {f}}} :
           f \in DOMAIN directory}

PossibleFaults ==
    {<<k, a, f>> : k \in {"stat", "unlink"}, a \in {"upload"}, f \in ExpiredNow(upload_dir)}
    \cup {<<k, a, f>> : k \in {"stat", "unlink"}, a \in {"output"}, f \in ExpiredNow(output_dir)}
    \cup IsFileFaults("upload", upload_dir)
    \cup IsFileFaults("output", output_dir)
    \cup {<<"scan", a>> : a \in {b \in Areas : ExpiredNow(Directory(b)) # {}}}
    \cup {<<"exists", a>> : a \in Areas}

RECURSIVE AtMost(_, _)
AtMost(S, k) ==
    IF k = 0 THEN {{}}
    ELSE LET P == AtMost(S, k - 1) IN P \cup {A \cup {x} : A \in P, x \in S}

FaultSets == AtMost(PossibleFaults, MaxFaults)

\* the entries the `for` loop of _cleanup_directory reaches: is_file() is
\* called outside the inner try, so when it raises the loop is left
Visited(directory, area, faults) ==
    {f \in DOMAIN directory :
        \A x \in faults : (x[1] = "is_file" /\ x[2] = area) => f \in x[4]}

\* the names _cleanup_directory unlinks and returns
_cleanup_directory(directory, area, faults) ==
    IF <<"scan", area>> \in faults
    THEN {}
    ELSE {f \in Visited(directory, area, faults) :
             /\ _is_file_expired(directory[f], <<"stat", area, f>> \in faults)
             /\ <<"unlink", area, f>> \notin faults}

Report(timestamp, deleted_uploads, deleted_outputs) ==
    [timestamp |-> timestamp,
     deleted_uploads |-> Cardinality(deleted_uploads),
     deleted_outputs |-> Cardinality(deleted_outputs),
     total_deleted |-> Cardinality(deleted_uploads) + Cardinality(deleted_outputs),
     upload_files |-> deleted_uploads,
     output_files |-> deleted_outputs]

NoReport == Report(NoTime, {}, {})

\* one sweep: the directories it leaves and the report it returns, or the
\* exception that escapes it
cleanup_expired_files(faults) ==
    LET deleted_uploads ==
            IF <<"exists", "upload">> \in faults THEN {}
            ELSE _cleanup_directory(upload_dir, "upload", faults)
        deleted_outputs ==
            IF \E a \in Areas : <<"exists", a>> \in faults THEN {}
            ELSE _cleanup_directory(output_dir, "output", faults)
        raised == \E a \in Areas : <<"exists", a>> \in faults
    IN  [raised |-> raised,
         upload_dir |-> Drop(upload_dir, deleted_uploads),
         output_dir |-> Drop(output_dir, deleted_outputs),
         report |-> IF raised THEN NoReport
                    ELSE Report(now, deleted_uploads, deleted_outputs)]

\* POST /cleanup
manual_cleanup(faults) ==
    /\ LoopFree
    /\ LET result == cleanup_expired_files(faults)
       IN  /\ upload_dir' = result.upload_dir
           /\ output_dir' = result.output_dir
           /\ outcome' = [op |-> "manual_cleanup",
                          code |-> IF result.raised THEN 500 ELSE 200,
                          report |-> result.report, clean |-> faults = {}]
    /\ UNCHANGED <<now, ENABLE_CLEANUP, CONVERSION_TIMEOUT>>
    /\ UNCHANGED <<uuid_count, procs, async_tasks, background, sync_call>>
    /\ UNCHANGED sweeper_vars

\* pc: where the task stands; since: when it was created or went to sleep;
\* cancelled: cancel() was called on it; awaited: a stop call awaits it;
\* iterations: sweeps it has run (kept while the task lives)
LoopTask(pc, since, cancelled, awaited, iterations) ==
    [pc |-> pc, since |-> since, cancelled |-> cancelled, awaited |-> awaited,
     iterations |-> iterations]

\* asyncio.create_task(self._cleanup_loop()): the task exists, it has not run yet
create_task == LoopTask("created", now, FALSE, FALSE, 0)

\* (mutant) the loop sleeps the recovery delay after every iteration
WakeTime_no_interval(task) == task.since + RECOVERY_DELAY

\* the time an asyncio.sleep of the loop is over
WakeTime(task) ==
    IF task.pc = "sleeping" THEN task.since + CLEANUP_INTERVAL_MINUTES
    ELSE task.since + RECOVERY_DELAY

Runnable(task) ==
    \/ task.pc = "created"
    \/ task.pc \in {"sleeping", "recovering"} /\ now >= WakeTime(task)

\* (mutant) the test of is_running is left out
start_cleanup_service_no_guard ==
    /\ LoopFree
    /\ IF ~ENABLE_CLEANUP
       THEN /\ outcome' = [op |-> "start_cleanup_service",
                           detail |-> "File cleanup is disabled"]
            /\ UNCHANGED sweeper_vars
       ELSE /\ Cardinality(DOMAIN loop_tasks) < MaxStarts
            /\ is_running' = TRUE
            /\ cleanup_task' = Cardinality(DOMAIN loop_tasks) + 1
            /\ loop_tasks' = Put(loop_tasks, cleanup_task', create_task)
            /\ outcome' = [op |-> "start_cleanup_service",
                           detail |-> "File cleanup service started"]
    /\ UNCHANGED <<now, ENABLE_CLEANUP, CONVERSION_TIMEOUT>>
    /\ UNCHANGED conv_vars

\* start_cleanup_service
start_cleanup_service ==
    /\ LoopFree
    /\ IF ~ENABLE_CLEANUP
       THEN /\ outcome' = [op |-> "start_cleanup_service",
                           detail |-> "File cleanup is disabled"]
            /\ UNCHANGED sweeper_vars
       ELSE IF is_running
       THEN /\ outcome' = [op |-> "start_cleanup_service",
                           detail |-> "Cleanup service is already running"]
            /\ UNCHANGED sweeper_vars
       ELSE /\ Cardinality(DOMAIN loop_tasks) < MaxStarts
            /\ is_running' = TRUE
            /\ cleanup_task' = Cardinality(DOMAIN loop_tasks) + 1
            /\ loop_tasks' = Put(loop_tasks, cleanup_task', create_task)
            /\ outcome' = [op |-> "start_cleanup_service",
                           detail |-> "File cleanup service started"]
    /\ UNCHANGED <<now, ENABLE_CLEANUP, CONVERSION_TIMEOUT>>
    /\ UNCHANGED conv_vars

\* (mutant) stop clears is_running and returns; the task is not cancelled
stop_cleanup_service_no_cancel ==
    /\ LoopFree
    /\ IF ~is_running
       THEN UNCHANGED sweeper_vars
       ELSE /\ is_running' = FALSE
            /\ UNCHANGED <<cleanup_task, loop_tasks>>
    /\ outcome' = [op |-> "stop_cleanup_service", returned |-> TRUE, task |-> NoId]
    /\ UNCHANGED <<now, ENABLE_CLEANUP, CONVERSION_TIMEOUT>>
    /\ UNCHANGED conv_vars

\* stop_cleanup_service up to its await (or to its end, when it does not wait)
stop_cleanup_service ==
    /\ LoopFree
    /\ IF ~is_running
       THEN /\ outcome' = [op |-> "stop_cleanup_service", returned |-> TRUE,
                           task |-> NoId]
            /\ UNCHANGED sweeper_vars
       ELSE /\ is_running' = FALSE
            /\ UNCHANGED cleanup_task
            /\ IF cleanup_task = NoId
               THEN /\ outcome' = [op |-> "stop_cleanup_service", returned |-> TRUE,
                                   task |-> NoId]
                    /\ UNCHANGED loop_tasks
               ELSE /\ loop_tasks' = Put(loop_tasks, cleanup_task,
                           [loop_tasks[cleanup_task] EXCEPT
                                !.cancelled = (loop_tasks[cleanup_task].pc # "done"),
                                !.awaited = TRUE])
                    /\ outcome' = [op |-> "stop_cleanup_service", returned |-> FALSE,
                                   task |-> cleanup_task]
    /\ UNCHANGED <<now, ENABLE_CLEANUP, CONVERSION_TIMEOUT>>
    /\ UNCHANGED conv_vars

\* `await self.cleanup_task` is over: stop_cleanup_service returns
stop_return(task) ==
    /\ LoopFree
    /\ task \in DOMAIN loop_tasks
    /\ loop_tasks[task].awaited
    /\ loop_tasks[task].pc = "done"
    /\ loop_tasks' = Put(loop_tasks, task, [loop_tasks[task] EXCEPT !.awaited = FALSE])
    /\ outcome' = [op |-> "stop_cleanup_service", returned |-> TRUE, task |-> task]
    /\ UNCHANGED <<now, ENABLE_CLEANUP, CONVERSION_TIMEOUT>>
    /\ UNCHANGED <<is_running, cleanup_task>>
    /\ UNCHANGED conv_vars

\* (mutant) an exception raised by the sweep leaves the `while` loop
_cleanup_loop_dies_on_error(task, faults) ==
    /\ LoopFree
    /\ task \in DOMAIN loop_tasks
    /\ ~loop_tasks[task].cancelled
    /\ Runnable(loop_tasks[task])
    /\ IF ~is_running
       THEN /\ faults = {}
            /\ loop_tasks' = Put(loop_tasks, task,
                   [loop_tasks[task] EXCEPT !.pc = "done", !.since = NoTime,
                                    !.iterations = 0])
            /\ outcome' = [op |-> "_cleanup_loop", task |-> task, swept |-> FALSE,
                           raised |-> FALSE, report |-> NoReport, clean |-> TRUE]
            /\ UNCHANGED <<upload_dir, output_dir>>
       ELSE IF ~ENABLE_CLEANUP
       THEN /\ faults = {}
            /\ loop_tasks' = Put(loop_tasks, task,
                   [loop_tasks[task] EXCEPT !.pc = "sleeping", !.since = now])
            /\ outcome' = [op |-> "_cleanup_loop", task |-> task, swept |-> FALSE,
                           raised |-> FALSE, report |-> NoReport, clean |-> TRUE]
            /\ UNCHANGED <<upload_dir, output_dir>>
       ELSE LET result == cleanup_expired_files(faults)
            IN  /\ upload_dir' = result.upload_dir
                /\ output_dir' = result.output_dir
                /\ loop_tasks' = Put(loop_tasks, task,
                       [loop_tasks[task] EXCEPT
                            !.pc = IF result.raised THEN "done" ELSE "sleeping",
                            !.since = IF result.raised THEN NoTime ELSE now,
                            !.iterations = loop_tasks[task].iterations + 1])
                /\ outcome' = [op |-> "_cleanup_loop", task |-> task, swept |-> TRUE,
                               raised |-> result.raised, report |-> result.report,
                               clean |-> faults = {}]
    /\ UNCHANGED <<now, ENABLE_CLEANUP, CONVERSION_TIMEOUT>>
    /\ UNCHANGED <<uuid_count, procs, async_tasks, background, sync_call, is_running, cleanup_task>>

\* one iteration of _cleanup_loop, from the `while` test to the next sleep
_cleanup_loop(task, faults) ==
    /\ LoopFree
    /\ task \in DOMAIN loop_tasks
    /\ ~loop_tasks[task].cancelled
    /\ Runnable(loop_tasks[task])
    /\ IF ~is_running
       THEN /\ faults = {}
            /\ loop_tasks' = Put(loop_tasks, task,
                   [loop_tasks[task] EXCEPT !.pc = "done", !.since = NoTime,
                                    !.iterations = 0])
            /\ outcome' = [op |-> "_cleanup_loop", task |-> task, swept |-> FALSE,
                           raised |-> FALSE, report |-> NoReport, clean |-> TRUE]
            /\ UNCHANGED <<upload_dir, output_dir>>
       ELSE IF ~ENABLE_CLEANUP
       THEN /\ faults = {}
            /\ loop_tasks' = Put(loop_tasks, task,
                   [loop_tasks[task] EXCEPT !.pc = "sleeping", !.since = now])
            /\ outcome' = [op |-> "_cleanup_loop", task |-> task, swept |-> FALSE,
                           raised |-> FALSE, report |-> NoReport, clean |-> TRUE]
            /\ UNCHANGED <<upload_dir, output_dir>>
       ELSE LET result == cleanup_expired_files(faults)
            IN  /\ upload_dir' = result.upload_dir
                /\ output_dir' = result.output_dir
                /\ loop_tasks' = Put(loop_tasks, task,
                       [loop_tasks[task] EXCEPT
                            !.pc = IF result.raised THEN "recovering" ELSE "sleeping",
                            !.since = now,
                            !.iterations = loop_tasks[task].iterations + 1])
                /\ outcome' = [op |-> "_cleanup_loop", task |-> task, swept |-> TRUE,
                               raised |-> result.raised, report |-> result.report,
                               clean |-> faults = {}]
    /\ UNCHANGED <<now, ENABLE_CLEANUP, CONVERSION_TIMEOUT>>
    /\ UNCHANGED <<uuid_count, procs, async_tasks, background, sync_call, is_running, cleanup_task>>

\* the cancellation requested by stop reaches the task: CancelledError at its
\* await (or before its first step), and the task is over
loop_cancelled(task) ==
    /\ LoopFree
    /\ task \in DOMAIN loop_tasks
    /\ loop_tasks[task].cancelled
    /\ loop_tasks[task].pc # "done"
    /\ loop_tasks' = Put(loop_tasks, task,
           [loop_tasks[task] EXCEPT !.pc = "done", !.since = NoTime,
                                    !.iterations = 0])
    /\ outcome' = [op |-> "_cleanup_loop", task |-> task, swept |-> FALSE,
                   raised |-> FALSE, report |-> NoReport, clean |-> TRUE]
    /\ UNCHANGED <<now, ENABLE_CLEANUP, CONVERSION_TIMEOUT>>
    /\ UNCHANGED <<is_running, cleanup_task>>
    /\ UNCHANGED conv_vars

-----------------------------------------------------------------------------
(* The environment and the specifications *)

\* a conversion waits on a timer that has not fired yet
TimerPending ==
    \/ sync_call.pc = "blocked" /\ now < sync_call.deadline
    \/ \E t \in DOMAIN background :
           background[t].pc = "waiting" /\ now < background[t].deadline

\* the clock advances (past MaxTime only to let a pending timeout fire)
Tick ==
    /\ now < MaxTime \/ TimerPending
    /\ now' = now + 1
    /\ outcome' = Quiet
    /\ UNCHANGED <<ENABLE_CLEANUP, CONVERSION_TIMEOUT>>
    /\ UNCHANGED conv_vars
    /\ UNCHANGED sweeper_vars

Init ==
    /\ now = 0
    /\ ENABLE_CLEANUP \in BOOLEAN
    /\ CONVERSION_TIMEOUT \in {1, 3}    \* shorter or longer than the retention
    /\ uuid_count = 0
    /\ upload_dir = EmptyMap
    /\ output_dir = EmptyMap
    /\ procs = EmptyMap
    /\ async_tasks = EmptyMap
    /\ background = EmptyMap
    /\ sync_call = Idle
    /\ is_running = FALSE
    /\ cleanup_task = NoId
    /\ loop_tasks = EmptyMap
    /\ outcome = Quiet

Immediate ==
    \/ \E file \in FileNames, len \in ContentLengths,
          stage \in StageOutcomes, spawn \in SpawnOutcomes :
            convert_sync(file, len, stage, spawn)
    \/ \E returncode \in {0, 1}, out \in BOOLEAN, decodable \in BOOLEAN :
          convert_sync_return(returncode, out, decodable)
    \/ convert_sync_timeout

Deferred ==
    \/ \E file \in FileNames, len \in ContentLengths : convert_async(file, len)
    \/ \E task_id \in DOMAIN background,
          stage \in StageOutcomes, spawn \in SpawnOutcomes :
            background_start(task_id, stage, spawn)
    \/ \E task_id \in DOMAIN background, returncode \in {0, 1}, out \in BOOLEAN :
            process_exit(task_id, returncode, out)
    \/ \E task_id \in DOMAIN background : background_finish(task_id)
    \/ \E task_id \in DOMAIN background : background_timeout(task_id)
    \/ \E task_id \in DOMAIN async_tasks \cup {uuid4} : get_task_status(task_id)

Sweeper ==
    \/ start_cleanup_service
    \/ stop_cleanup_service
    \/ \E task \in DOMAIN loop_tasks : stop_return(task)
    \/ \E task \in DOMAIN loop_tasks, faults \in FaultSets : _cleanup_loop(task, faults)
    \/ \E task \in DOMAIN loop_tasks : loop_cancelled(task)

Manual == \E faults \in FaultSets : manual_cleanup(faults)

\* the whole service
Next == Immediate \/ Deferred \/ Sweeper \/ Manual \/ Tick

Spec == Init /\ [][Next]_vars

\* The conversion workflow with the sweeper service switched off
\* (ENABLE_CLEANUP=false): sweeps happen through POST /cleanup, at any instant.
JobsNext == Immediate \/ Deferred \/ Manual \/ Tick

\* config.ENABLE_CLEANUP is false: startup_event starts no loop task; a
\* conversion times out before a file staged at its start can expire
JobsInit == Init /\ ~ENABLE_CLEANUP /\ CONVERSION_TIMEOUT <= FILE_EXPIRE_HOURS

JobsSpec == JobsInit /\ [][JobsNext]_vars

\* The service restarted at time 0 over directories that an earlier run left
\* behind (mkdir(exist_ok=True) keeps what is there): in each, a file last
\* modified two ticks before the restart and one modified at the restart.
RestartInit ==
    /\ now = 0
    /\ ENABLE_CLEANUP \in BOOLEAN
    /\ CONVERSION_TIMEOUT = 1
    /\ uuid_count = 0
    /\ upload_dir = (<<"report", 0, ".DOCX">> :> -2) @@ (<<"budget", 0, ".xlsx">> :> 0)
    /\ output_dir = (<<"report", 0, ".pdf">> :> -2) @@ (<<"budget", 0, ".pdf">> :> 0)
    /\ procs = EmptyMap
    /\ async_tasks = EmptyMap
    /\ background = EmptyMap
    /\ sync_call = Idle
    /\ is_running = FALSE
    /\ cleanup_task = NoId
    /\ loop_tasks = EmptyMap
    /\ outcome = Quiet

\* POST /cleanup while the file system raises nothing
CleanManual == manual_cleanup({})

\* Config.validate(): the cleanup interval and the retention are positive (the
\* port, which validate also checks, is not part of the model); the conversion
\* timeout is not looked at
validate == CLEANUP_INTERVAL_MINUTES > 0 /\ FILE_EXPIRE_HOURS > 0

\* A configuration that validate() accepts in which a conversion may run
\* longer than a file is retained (CONVERSION_TIMEOUT is in seconds and
\* unchecked, FILE_EXPIRE_HOURS may be as low as 1)
LongJobsInit ==
    Init /\ ~ENABLE_CLEANUP /\ validate /\ CONVERSION_TIMEOUT > FILE_EXPIRE_HOURS

\* The deferred path, for the submissions convert_async accepts, and sweeps
\* through POST /cleanup under that configuration
LongJobsNext ==
    \/ \E file \in SupportedNames : convert_async(file, 1)
    \/ \E task_id \in DOMAIN background,
          stage \in StageOutcomes, spawn \in SpawnOutcomes :
            background_start(task_id, stage, spawn)
    \/ \E task_id \in DOMAIN background, returncode \in {0, 1}, out \in BOOLEAN :
            process_exit(task_id, returncode, out)
    \/ \E task_id \in DOMAIN background : background_finish(task_id)
    \/ \E task_id \in DOMAIN background : background_timeout(task_id)
    \/ CleanManual
    \/ Tick

LongJobsSpec == LongJobsInit /\ [][LongJobsNext]_vars

\* The sweeper service alone, over the left-over files: periodic sweeps with
\* the faults the file system may inject, manual sweeps, start and stop calls
\* in any order.
SweeperNext == Sweeper \/ CleanManual \/ Tick

SweeperSpec == RestartInit /\ [][SweeperNext]_vars

\* The sweeper service under fair scheduling: the clock runs and the event
\* loop runs a loop task whose sleep is over.  Nothing is assumed of start and
\* stop calls.
SweeperFairness ==
    /\ WF_vars(Tick)
    /\ \A task \in 1..MaxStarts :
          WF_vars(\E faults \in FaultSets : _cleanup_loop(task, faults))

FairSweeperSpec == RestartInit /\ [][SweeperNext]_vars /\ SweeperFairness

\* Fair scheduling: the clock runs, a timeout that is due fires, and the event
\* loop runs every background step that stays ready.  Nothing is assumed of
\* the external processes.
TaskIds == 1..(2 * MaxSubmissions)

Fairness ==
    /\ WF_vars(Tick)
    /\ WF_vars(convert_sync_timeout)
    /\ \A task_id \in TaskIds :
        /\ WF_vars(\E stage \in StageOutcomes, spawn \in SpawnOutcomes :
                       background_start(task_id, stage, spawn))
        /\ WF_vars(background_finish(task_id))
        /\ WF_vars(background_timeout(task_id))

\* The conversion workflow under fair scheduling, for the submissions both
\* handlers accept (a rejected one changes nothing).
FairJobsNext ==
    \/ \E file \in SupportedNames, stage \in StageOutcomes, spawn \in SpawnOutcomes :
            convert_sync(file, 1, stage, spawn)
    \/ \E returncode \in {0, 1}, out \in BOOLEAN, decodable \in BOOLEAN :
          convert_sync_return(returncode, out, decodable)
    \/ convert_sync_timeout
    \/ \E file \in SupportedNames : convert_async(file, 1)
    \/ \E task_id \in DOMAIN background,
          stage \in StageOutcomes, spawn \in SpawnOutcomes :
            background_start(task_id, stage, spawn)
    \/ \E task_id \in DOMAIN background, returncode \in {0, 1}, out \in BOOLEAN :
            process_exit(task_id, returncode, out)
    \/ \E task_id \in DOMAIN background : background_finish(task_id)
    \/ \E task_id \in DOMAIN background : background_timeout(task_id)
    \/ Manual
    \/ Tick

FairJobsSpec == JobsInit /\ [][FairJobsNext]_vars /\ Fairness

-----------------------------------------------------------------------------
(* The conversion workflow: C1 under FairJobsSpec, C2 - C6 under JobsSpec *)

\* C1: when convert_async returns a task id, the registry holds that id with
\* status 'processing'; a job is 'completed' only with an output filename and
\* 'failed' only with a message; and under fair scheduling every registered job
\* eventually is 'completed' or 'failed'.
C1_JobReachesTerminal ==
    /\ []((outcome.op = "convert_async" /\ outcome.code = 200)
            => /\ outcome.task_id \in DOMAIN async_tasks
               /\ async_tasks[outcome.task_id].status = "processing")
    /\ [](\A t \in DOMAIN async_tasks :
            /\ async_tasks[t].status \in {"processing", "completed", "failed"}
            /\ async_tasks[t].status = "completed"
                 => async_tasks[t].filename # NoName
            /\ async_tasks[t].status = "failed"
                 => async_tasks[t].message \notin {"", None})
    /\ \A t \in TaskIds :
          (t \in DOMAIN async_tasks)
             ~> (t \in DOMAIN async_tasks
                   /\ async_tasks[t].status \in {"completed", "failed"})

\* two jobs are over, one completed with its output name and one failed
C1_Witness ==
    \E t, u \in DOMAIN async_tasks :
        /\ async_tasks[t].status = "completed"
        /\ async_tasks[t].filename = expected_pdf_name(background[t].name)
        /\ async_tasks[u].status = "failed"
        /\ background[t].pc = "done" /\ background[u].pc = "done"

\* C2: no step removes a job from the registry, a new job enters it as
\* 'processing', and the status of a job changes only from 'processing' to
\* 'completed' or to 'failed'.
C2_StatusMonotonic ==
    [][/\ \A t \in DOMAIN async_tasks :
             /\ t \in DOMAIN async_tasks'
             /\ async_tasks'[t].status # async_tasks[t].status
                  => /\ async_tasks[t].status = "processing"
                     /\ async_tasks'[t].status \in {"completed", "failed"}
       /\ \A t \in DOMAIN async_tasks' \ DOMAIN async_tasks :
             async_tasks'[t].status = "processing"]_vars

\* a job that completed is queried, after a sweep has removed its output
C2_Witness ==
    /\ outcome.op = "get_task_status" /\ outcome.code = 200
    /\ outcome.status = "completed"
    /\ outcome.filename \notin DOMAIN output_dir

\* C3: when the background call of a deferred job ends after a failure (the
\* file was not staged, the binary was not found, the process exited non-zero
\* or was killed on timeout, or the output is missing), that step sets the
\* job to 'failed' with filename None; a background call that is over never
\* leaves its job 'processing'; and an exception escaping the converter call
\* would be recorded as 'failed' with filename None for any registered job.
C3_FailureRecorded ==
    /\ [][\A t \in DOMAIN background :
             (background[t].pc # "done" /\ background'[t].pc = "done")
             => /\ async_tasks'[t].status \in {"completed", "failed"}
                /\ (\/ background[t].pc = "scheduled"
                    \/ procs[background[t].token].state = "running"
                    \/ procs[background[t].token].returncode # 0
                    \/ expected_pdf_name(background[t].name) \notin DOMAIN output_dir)
                   => /\ async_tasks'[t].status = "failed"
                      /\ async_tasks'[t].filename = NoName]_vars
    /\ [](\A t \in DOMAIN async_tasks :
            LET escaped == [raised |-> TRUE, success |-> FALSE, message |-> None,
                            output_filename |-> NoName]
                job == process_async_conversion(async_tasks, t, escaped)[t]
            IN  job.status = "failed" /\ job.filename = NoName)

\* a job failed because its upload could not be staged, another because the
\* converter exited with a non-zero status
C3_Witness ==
    \E t, u \in DOMAIN background :
        /\ background[t].pc = "done" /\ background[t].token \notin DOMAIN procs
        /\ async_tasks[t].status = "failed"
        /\ async_tasks[t].message = "Error during async conversion: OSError"
        /\ background[u].pc = "done" /\ background[u].token \in DOMAIN procs
        /\ procs[background[u].token].returncode = 1
        /\ async_tasks[u].status = "failed" /\ async_tasks[u].filename = NoName

\* C4: a conversion reports success exactly when its process exited with status
\* zero and <stem>.pdf is in the output directory when the converter looks; a
\* zero exit without that file reports 'PDF file not found after conversion';
\* the result carries an output filename exactly when it reports success.  On
\* the immediate path the result is the HTTP response, on the deferred path the
\* job record.
C4_SuccessCriterion ==
    [][/\ (sync_call.pc = "blocked" /\ sync_call'.pc = "idle")
          => LET returncode == procs'[sync_call.name[2]].returncode
                 found == expected_pdf_name(sync_call.name) \in DOMAIN output_dir'
             IN  /\ outcome'.op = "convert_sync" /\ outcome'.code \in {200, 500}
                 /\ outcome'.code = 200 <=> (returncode = 0 /\ found)
                 /\ (returncode = 0 /\ ~found)
                      => outcome'.detail = "PDF file not found after conversion"
                 /\ outcome'.filename # NoName <=> outcome'.code = 200
                 /\ outcome'.code = 200
                      => outcome'.filename = expected_pdf_name(sync_call.name)
       /\ (sync_call.pc = "idle" /\ sync_call'.pc = "idle"
             /\ outcome'.op = "convert_sync" /\ outcome'.code # 400)
          => outcome'.code = 500 /\ outcome'.filename = NoName
       /\ \A t \in DOMAIN background :
            /\ (background[t].pc = "waiting" /\ background'[t].pc = "done")
               => LET returncode == procs'[background[t].token].returncode
                      found == expected_pdf_name(background[t].name) \in DOMAIN output_dir'
                      job == async_tasks'[t]
                  IN  /\ job.status = "completed" <=> (returncode = 0 /\ found)
                      /\ (returncode = 0 /\ ~found)
                           => job.message = "PDF file not found after conversion"
                      /\ job.filename # NoName <=> job.status = "completed"
                      /\ job.status = "completed"
                           => job.filename = expected_pdf_name(background[t].name)
            /\ (background[t].pc = "scheduled" /\ background'[t].pc = "done")
               => async_tasks'[t].status = "failed" /\ async_tasks'[t].filename = NoName
      ]_vars

\* C5: a conversion whose process is still running when CONVERSION_TIMEOUT is
\* over ends with success=false and the timeout message, its process killed
\* and reaped, on both paths; and a process that is not reaped always belongs
\* to a conversion that has not returned yet.
C5_TimeoutKillsAndReaps ==
    /\ [][/\ (sync_call.pc = "blocked" /\ sync_call'.pc = "idle"
                /\ now >= sync_call.deadline)
             => /\ outcome'.op = "convert_sync" /\ outcome'.code = 500
                /\ outcome'.detail = TimeoutResult.message
                /\ outcome'.filename = NoName
                /\ procs'[sync_call.name[2]] = Proc("reaped", -9)
          /\ \A t \in DOMAIN background :
               (background[t].pc = "waiting" /\ background'[t].pc = "done"
                  /\ procs[background[t].token].state = "running")
               => /\ now >= background[t].deadline
                  /\ async_tasks'[t].status = "failed"
                  /\ async_tasks'[t].message = TimeoutResult.message
                  /\ async_tasks'[t].filename = NoName
                  /\ procs'[background[t].token] = Proc("reaped", -9)]_vars
    /\ [](\A token \in DOMAIN procs :
            procs[token].state # "reaped"
            => \/ sync_call.pc = "blocked" /\ sync_call.name[2] = token
               \/ \E t \in DOMAIN background :
                     background[t].pc = "waiting" /\ background[t].token = token)

\* both paths have timed out: the immediate one has just answered, the
\* deferred one is on record, and both processes are reaped after a kill
C5_Witness ==
    /\ outcome.op = "convert_sync" /\ outcome.detail = TimeoutResult.message
    /\ \E t \in DOMAIN async_tasks :
          /\ async_tasks[t].status = "failed"
          /\ async_tasks[t].message = TimeoutResult.message
          /\ procs[background[t].token] = Proc("reaped", -9)
    /\ \A token \in DOMAIN procs : procs[token] = Proc("reaped", -9)
    /\ Cardinality(DOMAIN procs) = 2

\* C6: a submission of zero-length content to either handler is answered with
\* status 400 and changes nothing: no file is staged, no process is started,
\* no job is registered and no background call is scheduled.
C6_EmptyRejected ==
    [][(\/ \E file \in FileNames, stage \in StageOutcomes, spawn \in SpawnOutcomes :
               convert_sync(file, 0, stage, spawn)
        \/ \E file \in FileNames : convert_async(file, 0))
       => /\ outcome'.code = 400
          /\ UNCHANGED conv_vars]_vars

\* an empty upload with a supported name was rejected on the deferred path
\* while an accepted job is in the registry
C6_Witness ==
    /\ outcome.op = "convert_async" /\ outcome.code = 400
    /\ outcome.detail = "Empty file"
    /\ async_tasks # EmptyMap

\* C11: while an immediate conversion waits for its external process, the
\* others can still take steps: a scheduled background call can start, a
\* deferred conversion whose process has exited can finish, one whose timeout
\* is due can be timed out, a status query can be answered and a loop task
\* that is due can run.
C11_IndependentProgress ==
    sync_call.pc = "blocked"
    => /\ \A t \in DOMAIN background :
            /\ background[t].pc = "scheduled"
                 => ENABLED (\E stage \in StageOutcomes, spawn \in SpawnOutcomes :
                                background_start(t, stage, spawn))
            /\ (background[t].pc = "waiting"
                  /\ procs[background[t].token].state = "exited")
                 => ENABLED background_finish(t)
            /\ (background[t].pc = "waiting"
                  /\ procs[background[t].token].state = "running"
                  /\ now >= background[t].deadline)
                 => ENABLED background_timeout(t)
       /\ \A t \in DOMAIN async_tasks : ENABLED get_task_status(t)
       /\ \A task \in DOMAIN loop_tasks :
            (~loop_tasks[task].cancelled /\ Runnable(loop_tasks[task]))
              => ENABLED (\E faults \in FaultSets : _cleanup_loop(task, faults))

\* C12: the generated input names of any two attempts, deferred or immediate,
\* differ, and so do their predicted output names; an attempt stages its
\* upload under a name no file of the upload directory has and expects an
\* output no file of the output directory has; and the output a completed job
\* reports is the one predicted for its own attempt and for no other.
C12_NamesDistinct ==
    /\ [](\A t \in DOMAIN background :
            background[t].name # NoName
            => /\ \A u \in DOMAIN background \ {t} :
                    background[u].name # NoName
                    => /\ background[u].name # background[t].name
                       /\ expected_pdf_name(background[u].name)
                            # expected_pdf_name(background[t].name)
               /\ sync_call.pc = "blocked"
                    => /\ sync_call.name # background[t].name
                       /\ expected_pdf_name(sync_call.name)
                            # expected_pdf_name(background[t].name)
               /\ async_tasks[t].status = "completed"
                    => async_tasks[t].filename = expected_pdf_name(background[t].name))
    /\ [][/\ (sync_call.pc = "idle" /\ sync_call'.pc = "blocked")
             => /\ sync_call'.name \notin DOMAIN upload_dir
                /\ expected_pdf_name(sync_call'.name) \notin DOMAIN output_dir
          /\ \A t \in DOMAIN background :
               (background[t].name = NoName /\ background'[t].name # NoName)
               => /\ background'[t].name \notin DOMAIN upload_dir
                  /\ expected_pdf_name(background'[t].name) \notin DOMAIN output_dir]_vars

\* two deferred conversions of the same upload name run at the same time
C12_Witness ==
    \E t, u \in DOMAIN background :
        /\ t # u
        /\ background[t].filename = background[u].filename
        /\ background[t].pc = "waiting" /\ background[u].pc = "waiting"
        /\ procs[background[t].token].state = "running"
        /\ procs[background[u].token].state = "running"

-----------------------------------------------------------------------------
\* C14: whatever happens to staging and to the external process (write error,
\* binary not found, non-zero exit, timeout, missing output, undecodable
\* output), both converters return success=false with a non-empty message and
\* nothing escapes them: the immediate handler answers 500 with the converter's
\* own message, never its "Internal server error", and the job record never
\* carries the message of the exception handler of process_async_conversion.
C14_FailuresAbsorbed ==
    [][/\ (outcome'.op = "convert_sync" /\ outcome'.code # 400
             /\ (sync_call.pc = "blocked" \/ uuid_count' # uuid_count)
             /\ sync_call'.pc = "idle")
          => LET failure ==
                     \/ sync_call.pc = "idle"
                     \/ now >= sync_call.deadline
                     \/ procs'[sync_call.name[2]].returncode # 0
                     \/ expected_pdf_name(sync_call.name) \notin DOMAIN output_dir'
             IN  /\ outcome'.code \in {200, 500}
                 /\ failure => outcome'.code = 500
                 /\ outcome'.code = 500
                      => /\ outcome'.detail \notin {"", None}
                         /\ outcome'.detail # "Internal server error: exception"
                         /\ outcome'.filename = NoName
       /\ \A t \in DOMAIN background :
            (background[t].pc # "done" /\ background'[t].pc = "done")
            => LET job == async_tasks'[t]
                   failure ==
                       \/ background[t].pc = "scheduled"
                       \/ procs[background[t].token].state = "running"
                       \/ procs'[background[t].token].returncode # 0
                       \/ expected_pdf_name(background[t].name) \notin DOMAIN output_dir'
               IN  /\ job.status \in {"completed", "failed"}
                   /\ failure => job.status = "failed"
                   /\ job.status = "failed"
                        => /\ job.message \notin {"", None}
                           /\ job.message # "Conversion failed: exception"
                           /\ job.filename = NoName
      ]_vars

\* an immediate conversion has failed on undecodable output of the process
\* while a job has failed on a write error
C14_Witness ==
    /\ outcome.op = "convert_sync" /\ outcome.code = 500
    /\ outcome.detail = "Unexpected error during conversion: UnicodeDecodeError"
    /\ \E t \in DOMAIN async_tasks :
          /\ async_tasks[t].status = "failed"
          /\ async_tasks[t].message = "Error during async conversion: OSError"

\* C15: the blocking and the awaitable converter agree: for the same staged
\* input, return code, presence of the output file, timeout and launch failure
\* (and whatever else the process did), each reports what the other form would
\* report: the same success flag and an output name in the same cases; and
\* both wait CONVERSION_TIMEOUT from the launch.
C15_FormsEquivalent ==
    [][/\ (sync_call.pc = "blocked" /\ sync_call'.pc = "idle")
          => \A decodable \in BOOLEAN :
                LET other ==
                        IF now >= sync_call.deadline THEN TimeoutResult
                        ELSE convert_to_pdf_async_tail(
                                 procs'[sync_call.name[2]].returncode, decodable,
                                 sync_call.name, output_dir')
                IN  /\ (outcome'.code = 200) = other.success
                    /\ (outcome'.filename # NoName) = (other.output_filename # NoName)
       /\ (sync_call.pc = "idle" /\ sync_call'.pc = "blocked")
          => sync_call'.deadline = now + CONVERSION_TIMEOUT
       /\ (sync_call.pc = "idle" /\ sync_call'.pc = "idle"
             /\ outcome'.op = "convert_sync" /\ outcome'.code # 400)
          => outcome'.code = 500 /\ outcome'.filename = NoName
       /\ \A t \in DOMAIN background :
            /\ (background[t].pc = "scheduled" /\ background'[t].pc = "waiting")
               => background'[t].deadline = now + CONVERSION_TIMEOUT
            /\ (background[t].pc = "scheduled" /\ background'[t].pc = "done")
               => async_tasks'[t].status = "failed" /\ async_tasks'[t].filename = NoName
            /\ (background[t].pc = "waiting" /\ background'[t].pc = "done")
               => \A decodable \in BOOLEAN :
                     LET other ==
                             IF procs[background[t].token].state = "running"
                             THEN TimeoutResult
                             ELSE convert_to_pdf_tail(
                                      _run_soffice_command(
                                          procs'[background[t].token].returncode,
                                          decodable),
                                      background[t].name, output_dir)
                     IN  /\ (async_tasks'[t].status = "completed") = other.success
                         /\ (async_tasks'[t].filename # NoName)
                              = (other.output_filename # NoName)
      ]_vars

\* C17: no step of convert_sync (a rejection, a failure before the launch,
\* the launch, the return of the converter, its timeout) changes the registry
\* async_tasks, and nothing else changes it while the call waits for its
\* process: the registry is the same when the call returns as when it began.
C17_SyncLeavesRegistry ==
    [][/\ outcome'.op = "convert_sync" => async_tasks' = async_tasks
       /\ sync_call.pc = "blocked" => async_tasks' = async_tasks
      ]_vars

\* an immediate conversion has just succeeded while the registry holds a job
\* that is still processing
C17_Witness ==
    /\ outcome.op = "convert_sync" /\ outcome.code = 200
    /\ \E t \in DOMAIN async_tasks : async_tasks[t].status = "processing"

\* C18: a step that is not a sweep keeps every file of both directories, with
\* its modification time; an attempt that gets as far as launching the process
\* has its staged input in the upload directory, and the step that ends an
\* attempt (return, timeout, on either path) leaves that input where it is; so
\* a file disappears only in a step of a sweep.
C18_ConversionKeepsFiles ==
    [][/\ outcome'.op \notin {"manual_cleanup", "_cleanup_loop"}
          => /\ \A f \in DOMAIN upload_dir :
                   f \in DOMAIN upload_dir' /\ upload_dir'[f] = upload_dir[f]
             /\ \A f \in DOMAIN output_dir :
                   f \in DOMAIN output_dir' /\ output_dir'[f] = output_dir[f]
       /\ (sync_call.pc = "idle" /\ sync_call'.pc = "blocked")
          => sync_call'.name \in DOMAIN upload_dir'
       /\ (sync_call.pc = "blocked" /\ sync_call'.pc = "idle")
          => (sync_call.name \in DOMAIN upload_dir
                <=> sync_call.name \in DOMAIN upload_dir')
       /\ \A t \in DOMAIN background :
            /\ (background[t].pc = "scheduled" /\ background'[t].pc = "waiting")
               => background'[t].name \in DOMAIN upload_dir'
            /\ (background[t].pc = "waiting" /\ background'[t].pc = "done")
               => (background[t].name \in DOMAIN upload_dir
                     <=> background[t].name \in DOMAIN upload_dir')
      ]_vars

\* a deferred conversion has just ended in a timeout and an immediate one has
\* ended before it; the staged inputs of both are in the upload directory
C18_Witness ==
    /\ outcome.op = "process_async_conversion" /\ outcome.detail = "timeout"
    /\ background[outcome.task_id].name \in DOMAIN upload_dir
    /\ \E token \in DOMAIN procs :
          /\ procs[token].state = "reaped"
          /\ \A t \in DOMAIN background : background[t].token # token
          /\ \E f \in DOMAIN upload_dir : f[2] = token

\* C19: every record of the registry is, at every instant, entirely the
\* processing record or entirely a terminal record; a step that changes the
\* registry changes one record only, either adding a processing record or
\* replacing a processing record by a terminal one with the same created_at;
\* and a status query answers with the fields of the record as it stands.
C19_RegistryAtomic ==
    /\ [](\A t \in DOMAIN async_tasks :
            LET job == async_tasks[t]
            IN  \/ /\ job.status = "processing"
                   /\ job.message = "Conversion in progress"
                   /\ job.filename = NoName
                \/ /\ job.status = "completed"
                   /\ job.message = "Conversion completed successfully"
                   /\ job.filename # NoName
                \/ /\ job.status = "failed"
                   /\ job.message \notin {"", "Conversion in progress",
                                          "Conversion completed successfully"}
                   /\ job.filename = NoName)
    /\ [][/\ async_tasks' # async_tasks
             => \E t \in DOMAIN async_tasks' :
                   /\ DOMAIN async_tasks' = DOMAIN async_tasks \cup {t}
                   /\ \A u \in DOMAIN async_tasks \ {t} :
                         async_tasks'[u] = async_tasks[u]
                   /\ IF t \in DOMAIN async_tasks
                      THEN /\ async_tasks[t].status = "processing"
                           /\ async_tasks'[t].status \in {"completed", "failed"}
                           /\ async_tasks'[t].created_at = async_tasks[t].created_at
                      ELSE /\ async_tasks'[t].status = "processing"
                           /\ async_tasks'[t].created_at = now
          /\ (outcome'.op = "get_task_status" /\ outcome'.code = 200)
             => /\ async_tasks' = async_tasks
                /\ outcome'.task_id \in DOMAIN async_tasks
                /\ outcome'.status = async_tasks[outcome'.task_id].status
                /\ outcome'.detail = async_tasks[outcome'.task_id].message
                /\ outcome'.filename = async_tasks[outcome'.task_id].filename
         ]_vars

\* a status query has just answered `completed`, with its file name, for a job
\* created before another one that is still processing
C19_Witness ==
    /\ outcome.op = "get_task_status" /\ outcome.code = 200
    /\ outcome.status = "completed" /\ outcome.filename # NoName
    /\ \E u \in DOMAIN async_tasks :
          /\ u # outcome.task_id
          /\ async_tasks[u].status = "processing"
          /\ background[u].pc = "waiting"

\* C21: in the step that turns a job's status into `completed`, the file its
\* record names is in the output directory: the existence check and the
\* registry update are one step of the event loop, so no sweep comes between.
C21_CompletedFileExists ==
    [][\A t \in DOMAIN async_tasks :
          (async_tasks[t].status # "completed" /\ async_tasks'[t].status = "completed")
          => /\ async_tasks'[t].filename \in DOMAIN output_dir'
             /\ async_tasks'[t].filename \in DOMAIN output_dir
             /\ async_tasks'[t].filename = expected_pdf_name(background[t].name)
      ]_vars

\* a job has just been completed with its file in place, while the file of a
\* job completed earlier has been swept since
C21_Witness ==
    /\ outcome.op = "process_async_conversion" /\ outcome.detail = "finished"
    /\ async_tasks[outcome.task_id].status = "completed"
    /\ async_tasks[outcome.task_id].filename \in DOMAIN output_dir
    /\ \E u \in DOMAIN async_tasks :
          /\ async_tasks[u].status = "completed"
          /\ async_tasks[u].filename \notin DOMAIN output_dir

(* The retention sweeper: C7 - C10, under SweeperSpec *)

\* C7: after a sweep that met no error (no stat, scan or unlink failure) and
\* returned its report, every file of either directory last modified before
\* now - FILE_EXPIRE_HOURS is gone and listed in the report, and every file
\* modified after that instant is still there, untouched, and not listed.
C7_SweepRetention ==
    [][(\/ outcome'.op = "manual_cleanup" /\ outcome'.code = 200 /\ outcome'.clean
        \/ outcome'.op = "_cleanup_loop" /\ outcome'.swept /\ ~outcome'.raised
              /\ outcome'.clean)
       => /\ \A f \in DOMAIN upload_dir :
               /\ upload_dir[f] < now - FILE_EXPIRE_HOURS
                    => f \notin DOMAIN upload_dir' /\ f \in outcome'.report.upload_files
               /\ upload_dir[f] > now - FILE_EXPIRE_HOURS
                    => /\ f \in DOMAIN upload_dir' /\ upload_dir'[f] = upload_dir[f]
                       /\ f \notin outcome'.report.upload_files
          /\ \A f \in DOMAIN output_dir :
               /\ output_dir[f] < now - FILE_EXPIRE_HOURS
                    => f \notin DOMAIN output_dir' /\ f \in outcome'.report.output_files
               /\ output_dir[f] > now - FILE_EXPIRE_HOURS
                    => /\ f \in DOMAIN output_dir' /\ output_dir'[f] = output_dir[f]
                       /\ f \notin outcome'.report.output_files]_vars

\* a sweep of the periodic loop has just deleted the two old files and kept the
\* two recent ones
C7_Witness ==
    /\ outcome.op = "_cleanup_loop" /\ outcome.swept /\ outcome.clean
    /\ outcome.report.total_deleted = 2
    /\ <<"report", 0, ".DOCX">> \in outcome.report.upload_files
    /\ <<"report", 0, ".pdf">> \in outcome.report.output_files
    /\ <<"budget", 0, ".xlsx">> \in DOMAIN upload_dir
    /\ <<"budget", 0, ".pdf">> \in DOMAIN output_dir

\* C8: whenever a call of stop_cleanup_service has returned, every loop task
\* that a stop call cancelled has terminated, and a cancelled task deletes
\* nothing any more.
C8_StoppedMeansTerminated ==
    /\ outcome.op = "stop_cleanup_service" /\ outcome.returned
         => \A t \in DOMAIN loop_tasks :
                loop_tasks[t].cancelled => loop_tasks[t].pc = "done"
    /\ outcome.op = "_cleanup_loop" /\ outcome.swept
         => ~loop_tasks[outcome.task].cancelled

\* C9 as stated: a sweep of the periodic loop never comes less than one full
\* CLEANUP_INTERVAL_MINUTES after the task was started or after its previous
\* iteration.
C9_NoSweepBeforeInterval ==
    [][\A t \in DOMAIN loop_tasks :
          (outcome'.op = "_cleanup_loop" /\ outcome'.task = t /\ outcome'.swept)
          => now >= loop_tasks[t].since + CLEANUP_INTERVAL_MINUTES]_vars

\* C9 amended: the first sweep of a loop task runs as soon as the task first
\* runs, without any delay; a sweep that follows a completed iteration comes
\* no sooner than CLEANUP_INTERVAL_MINUTES after it, and a sweep that follows
\* an iteration that raised comes no sooner than the recovery delay after it.
C9_SweepSpacing ==
    [][\A t \in DOMAIN loop_tasks :
          (outcome'.op = "_cleanup_loop" /\ outcome'.task = t /\ outcome'.swept)
          => /\ loop_tasks[t].pc \in {"created", "sleeping", "recovering"}
             /\ loop_tasks[t].pc = "created" => loop_tasks[t].iterations = 0
             /\ loop_tasks[t].pc = "sleeping"
                  => /\ loop_tasks[t].iterations > 0
                     /\ now >= loop_tasks[t].since + CLEANUP_INTERVAL_MINUTES
             /\ loop_tasks[t].pc = "recovering"
                  => /\ loop_tasks[t].iterations > 0
                     /\ now >= loop_tasks[t].since + RECOVERY_DELAY]_vars

\* a loop task swept at the instant it was started and has just swept again,
\* one interval later
C9_Witness ==
    /\ outcome.op = "_cleanup_loop" /\ outcome.swept /\ ~outcome.raised
    /\ loop_tasks[outcome.task].iterations = 2
    /\ now = CLEANUP_INTERVAL_MINUTES

\* C10: a call of start_cleanup_service while the sweeper is running leaves
\* is_running, cleanup_task and the set of loop tasks as they are; and with
\* ENABLE_CLEANUP false the sweeper is never running and no loop task exists.
C10_StartIdempotent ==
    /\ [][(is_running /\ outcome'.op = "start_cleanup_service")
            => UNCHANGED sweeper_vars]_vars
    /\ [](~ENABLE_CLEANUP =>
            ~is_running /\ cleanup_task = NoId /\ loop_tasks = EmptyMap)

\* start was called on a running sweeper
C10_Witness ==
    /\ outcome.op = "start_cleanup_service"
    /\ outcome.detail = "Cleanup service is already running"
    /\ is_running /\ cleanup_task \in DOMAIN loop_tasks
    /\ Cardinality(DOMAIN loop_tasks) = 1

\* C13: right after a sweep that met no error and returned its report, a
\* second sweep at the same instant, whatever errors it meets, leaves both
\* directories as they are and, when it returns a report, reports no deletion.
C13_SweepIdempotent ==
    (\/ outcome.op = "manual_cleanup" /\ outcome.code = 200 /\ outcome.clean
     \/ outcome.op = "_cleanup_loop" /\ outcome.swept /\ ~outcome.raised
           /\ outcome.clean)
    => \A faults \in FaultSets :
          LET second == cleanup_expired_files(faults)
          IN  /\ second.upload_dir = upload_dir
              /\ second.output_dir = output_dir
              /\ ~second.raised
                   => /\ second.report.total_deleted = 0
                      /\ second.report.upload_files = {}
                      /\ second.report.output_files = {}

\* a manual sweep has just deleted files from both directories
C13_Witness ==
    /\ outcome.op = "manual_cleanup" /\ outcome.code = 200 /\ outcome.clean
    /\ outcome.report.deleted_uploads >= 1
    /\ outcome.report.deleted_outputs >= 1
    /\ cleanup_expired_files({}).report.total_deleted = 0

\* C16: an iteration of the loop that raises leaves the task alive, waiting
\* the recovery delay; the task runs no sweep before that delay is over; a
\* task ends only after stop has cancelled it; and, under fair scheduling,
\* after a failed iteration whose recovery delay ends within the time
\* horizon, the task sweeps again unless stop cancels it first.
C16_LoopSurvivesFailure ==
    /\ [][\A task \in DOMAIN loop_tasks :
            /\ (outcome'.op = "_cleanup_loop" /\ outcome'.task = task
                  /\ outcome'.raised)
               => /\ loop_tasks'[task].pc = "recovering"
                  /\ loop_tasks'[task].since = now
                  /\ ~loop_tasks'[task].cancelled
            /\ (loop_tasks[task].pc = "recovering"
                  /\ outcome'.op = "_cleanup_loop" /\ outcome'.task = task
                  /\ outcome'.swept)
               => now >= loop_tasks[task].since + RECOVERY_DELAY
            /\ (loop_tasks[task].pc # "done" /\ loop_tasks'[task].pc = "done")
               => loop_tasks[task].cancelled
         ]_vars
    /\ \A task \in 1..MaxStarts, k \in 1..(MaxTime + 1) :
          (/\ task \in DOMAIN loop_tasks
           /\ loop_tasks[task].pc = "recovering"
           /\ loop_tasks[task].iterations = k
           /\ loop_tasks[task].since + RECOVERY_DELAY <= MaxTime)
          ~> (/\ task \in DOMAIN loop_tasks
              /\ \/ loop_tasks[task].cancelled
                 \/ loop_tasks[task].iterations > k)

\* a task whose first sweep raised has waited the recovery delay and has just
\* swept again, successfully, before the regular interval was over
C16_Witness ==
    /\ outcome.op = "_cleanup_loop" /\ outcome.swept /\ ~outcome.raised
    /\ loop_tasks[outcome.task].iterations = 2
    /\ loop_tasks[outcome.task].pc = "sleeping"
    /\ now < CLEANUP_INTERVAL_MINUTES
    /\ now >= RECOVERY_DELAY

\* C20: in a sweep of the loop where the only errors are errors on single
\* entries (stat() or unlink() of the entry raises, at whichever call), the
\* sweep returns its report, each such entry stays where it is and is not in
\* the report, and every other expired entry of both directories is deleted
\* and listed.
C20_EntryFailureIsLocal ==
    [][\A task \in DOMAIN loop_tasks, faults \in FaultSets :
          (/\ faults # {}
           /\ \A x \in faults : x[1] \in {"stat", "unlink", "is_file"}
           /\ _cleanup_loop(task, faults))
          => LET failed(area) == {x[3] : x \in {y \in faults : y[2] = area}}
             IN  /\ outcome'.swept /\ ~outcome'.raised
                 /\ failed("upload") \subseteq DOMAIN upload_dir'
                 /\ failed("upload") \cap outcome'.report.upload_files = {}
                 /\ failed("output") \subseteq DOMAIN output_dir'
                 /\ failed("output") \cap outcome'.report.output_files = {}
                 /\ \A f \in ExpiredNow(upload_dir) \ failed("upload") :
                       f \notin DOMAIN upload_dir'
                       /\ f \in outcome'.report.upload_files
                 /\ \A f \in ExpiredNow(output_dir) \ failed("output") :
                       f \notin DOMAIN output_dir'
                       /\ f \in outcome'.report.output_files
      ]_vars

\* C22: a sweep leaves in place the staged input of every deferred conversion
\* whose external process is still running within its timeout.
C22_SweepSparesRunning ==
    [][outcome'.op \in {"manual_cleanup", "_cleanup_loop"}
         => \A t \in DOMAIN background :
               (/\ background[t].pc = "waiting"
                /\ procs[background[t].token].state = "running"
                /\ now < background[t].deadline
                /\ background[t].name \in DOMAIN upload_dir)
               => background[t].name \in DOMAIN upload_dir'
      ]_vars

\* C23: at every instant at most one loop task has not been cancelled; such a
\* task exists exactly when is_running is true, it is then the task that
\* cleanup_task names, and it has not ended.
C23_OneLiveLoopTask ==
    LET live == {t \in DOMAIN loop_tasks : ~loop_tasks[t].cancelled}
    IN  /\ Cardinality(live) <= 1
        /\ is_running <=> live # {}
        /\ is_running => live = {cleanup_task}
        /\ \A t \in live : loop_tasks[t].pc # "done"

\* start has just created a second loop task while a stop call is suspended
\* on the first one, which is cancelled and has not ended yet
C23_Witness ==
    /\ outcome.op = "start_cleanup_service"
    /\ outcome.detail = "File cleanup service started"
    /\ is_running
    /\ \E t \in DOMAIN loop_tasks :
          /\ t # cleanup_task
          /\ loop_tasks[t].cancelled /\ loop_tasks[t].awaited
          /\ loop_tasks[t].pc # "done"
    /\ ~loop_tasks[cleanup_task].cancelled

====
